---- MODULE Spec2Model ----
(***************************************************************************)
(* HRV4Intervals: the sync orchestrator (run, sync), the schema transform  *)
(* (parse_dataframe_HRV_to_intervals), the scale mappers (map_series,      *)
(* map_series_reverse) and the date conversion                             *)
(* (map_series_american_to_iso_date) of src/sync.py, with the account      *)
(* validation and the wellness upload of src/intervals_api.py.             *)
(***************************************************************************)
EXTENDS Integers, Sequences, FiniteSets, TLC

VARIABLES
    accounts,   \* users.conf: the sequence of account sections, in file order
    cache,      \* per user: the content of the local {user}.csv, or NoFile
    last,       \* per user: the record of the user's latest sync call
    prev,       \* per user: the record of the sync call before the latest
    pc,         \* position of run: "idle", "loop", "done", "aborted"
    idx,        \* index of the user the for loop of run is at
    attempted,  \* users for which run has called sync in the current batch
    abortedBy,  \* index of the user whose iteration raised out of run, or 0
    batches,    \* number of invocations of run so far
    batch,      \* the DataFrame handed to parse_dataframe_HRV_to_intervals
    table,      \* what parse_dataframe_HRV_to_intervals produced for batch
    mapIn,      \* a score handed to the scale mappers (hundredths)
    mapOut,     \* the codes the scale mappers produced for mapIn
    dateIn,     \* a date text handed to the date conversion
    dateOut     \* the text the date conversion produced for dateIn

vars == <<accounts, cache, last, prev, pc, idx, attempted, abortedBy, batches,
          batch, table, mapIn, mapOut, dateIn, dateOut>>

syncVars == <<accounts, cache, last, prev, pc, idx, attempted, abortedBy, batches>>
transformVars == <<batch, table>>
mapVars == <<mapIn, mapOut>>
dateVars == <<dateIn, dateOut>>

(***************************************************************************)
(* Bounds of the model.                                                    *)
(***************************************************************************)
MaxUsers == 2
MaxBatches == 2

(***************************************************************************)
(* Text is a sequence of characters.                                       *)
(***************************************************************************)
Digits == {"0", "1", "2", "3", "4", "5", "6", "7", "8", "9"}
WordChars == Digits \cup {"a", "b", "i", "k", "_"}

Repeat(c, n) == [k \in 1..n |-> c]

\* pattern in text: Python's substring test on str
Contains(text, pattern) ==
    \E s \in 0..(Len(text) - Len(pattern)) :
        \A k \in 1..Len(pattern) : text[s + k] = pattern[k]

(***************************************************************************)
(* Account validation (intervals_api.API).                                 *)
(***************************************************************************)
USER_CONFIG_ATHLETE_ID_FIELD == "intervals_user_id"
USER_CONFIG_API_KEY_FIELD == "intervals_api_key"
ApiKeyLen == 24

\* re.match(r'i\d+', athlete_id): anchored at the start only
validate_athlete_id(athlete_id) ==
    /\ Len(athlete_id) >= 2
    /\ athlete_id[1] = "i"
    /\ athlete_id[2] \in Digits

\* re.match(r'\w{24}', api_key): anchored at the start only
validate_api_key(api_key) ==
    /\ Len(api_key) >= ApiKeyLen
    /\ \A k \in 1..ApiKeyLen : api_key[k] \in WordChars

\* API.__init__: both assertions pass
APIInit(athlete_id, api_key) ==
    validate_athlete_id(athlete_id) /\ validate_api_key(api_key)

GoodId == <<"i", "4", "2">>
BadId == <<"4", "2">>
GoodKey == Repeat("k", ApiKeyLen)
BadKey == Repeat("k", ApiKeyLen - 1)

\* The account sections users.conf may hold: a section is a mapping from the
\* field names it has to their values.
Sections ==
    { [intervals_user_id |-> GoodId, intervals_api_key |-> GoodKey],
      [intervals_user_id |-> BadId, intervals_api_key |-> GoodKey],
      [intervals_user_id |-> GoodId, intervals_api_key |-> BadKey],
      [intervals_api_key |-> GoodKey],
      [intervals_user_id |-> GoodId] }

HasField(section, f) == f \in DOMAIN section

WellFormed(section) ==
    /\ HasField(section, USER_CONFIG_ATHLETE_ID_FIELD)
    /\ HasField(section, USER_CONFIG_API_KEY_FIELD)
    /\ APIInit(section[USER_CONFIG_ATHLETE_ID_FIELD], section[USER_CONFIG_API_KEY_FIELD])

(***************************************************************************)
(* The remote file, the local copy and its fingerprint.                    *)
(***************************************************************************)
NoFile == "nofile"
\* Contents of the remote CSV: two exports that parse and transform, and one
\* that pd.read_csv or the transform rejects.
RemoteContents == {"csvA", "csvB", "garbled"}
\* What a download that fails midway leaves in the local file.
Partial == "partial"

\* pd.read_csv and parse_dataframe_HRV_to_intervals return for this content
Parses(content) == content \in {"csvA", "csvB"}

\* hashlib.md5(f.read()).hexdigest(): a digest per content
get_md5sum(content) ==
    CASE content = "csvA" -> "d41a"
      [] content = "csvB" -> "9e10"
      [] content = "garbled" -> "77c3"
      [] OTHER -> "0b5f"

None == "None"

(***************************************************************************)
(* The destination's answers to the wellness POST.                         *)
(***************************************************************************)
StatusWord == <<"s", "t", "a", "t", "u", "s">>
OkBody == <<>>
JsonErrorBody == <<"{">> \o StatusWord \o <<":", "4", "0", "3", "}">>
HtmlErrorBody == <<"B", "a", "d">>
JsonOkBody == <<"{">> \o StatusWord \o <<":", "2", "0", "0", "}">>

\* code 0: requests.post raised (no answer at all)
Responses ==
    { [code |-> 200, text |-> OkBody],
      [code |-> 200, text |-> JsonOkBody],
      [code |-> 403, text |-> JsonErrorBody],
      [code |-> 502, text |-> HtmlErrorBody],
      [code |-> 0, text |-> <<>>] }

\* CSVEndpoint.post_request_csv returns r.text; the status code is dropped
post_request_csv(resp) == resp.text

\* assert 'status' not in result or result['status'] == 200, with result a
\* str: the membership test is a substring test, and result['status'] on a
\* str raises TypeError.  TRUE when the statement completes.
StatusAssertPasses(result) == ~Contains(result, StatusWord)

(***************************************************************************)
(* sync(user, athlete_id, api_key, config)                                 *)
(***************************************************************************)
\* The record of a sync call: the state it ended in and the stage it got
\* to, the local file it found (old), the content it downloaded and hashed
\* ("none" when it did not get that far), the number of POSTs it sent and the
\* status code of the answer (0: none).
NoRun == [state |-> "none", stage |-> "none", old |-> NoFile, content |-> "none",
          posts |-> 0, code |-> 0]

Outcome(state, stage, old, content, posts, code) ==
    [state |-> state, stage |-> stage, old |-> old, content |-> content,
     posts |-> posts, code |-> code]

\* How a download may go: it completes; the request is refused; the stream
\* breaks midway; it completes but the file cannot be read back for the hash.
DownloadCases == {"ok", "refused", "broken", "unreadable"}

\* The local file after files_download_to_file: the remote content, or on a
\* failure the old file (request refused) or a truncated one (stream broke).
Downloaded(old, dl, remote) ==
    CASE dl \in {"ok", "unreadable"} -> remote
      [] dl = "refused" -> old
      [] OTHER -> Partial

\* if old_hash == new_hash: the file did not change
Unchanged_Never(old_hash, new_hash) == FALSE
Unchanged(old_hash, new_hash) == old_hash = new_hash

\* The whole of sync for one user: the new local file and the record of the
\* call.  dbxOk: get_dropbox_instance returned; dl: how the download went;
\* remote: the remote content; resp: the destination's answer.
Sync(section, old, dbxOk, dl, remote, resp) ==
    LET old_hash == IF old # NoFile THEN get_md5sum(old) ELSE None
        file     == Downloaded(old, dl, remote)
        new_hash == get_md5sum(file)
        result   == post_request_csv(resp)
    IN  IF ~dbxOk
        THEN [file |-> old, rec |-> Outcome("Failed", "Idle", old, "none", 0, 0)]
        ELSE IF dl \in {"refused", "broken"}
        THEN [file |-> file, rec |-> Outcome("Failed", "Downloading", old, "none", 0, 0)]
        ELSE IF dl = "unreadable"
        THEN [file |-> file, rec |-> Outcome("Failed", "Comparing", old, "none", 0, 0)]
        ELSE IF Unchanged(old_hash, new_hash)
        THEN [file |-> file, rec |-> Outcome("Unchanged", "Comparing", old, remote, 0, 0)]
        ELSE IF ~Parses(file)
        THEN [file |-> file, rec |-> Outcome("Failed", "Transforming", old, remote, 0, 0)]
        ELSE IF ~APIInit(section[USER_CONFIG_ATHLETE_ID_FIELD],
                         section[USER_CONFIG_API_KEY_FIELD])
        THEN [file |-> file, rec |-> Outcome("Failed", "Uploading", old, remote, 0, 0)]
        ELSE IF resp.code = 0
        THEN [file |-> file, rec |-> Outcome("Failed", "Uploading", old, remote, 1, 0)]
        ELSE IF ~StatusAssertPasses(result)
        THEN [file |-> file, rec |-> Outcome("Failed", "Uploading", old, remote, 1, resp.code)]
        ELSE [file |-> file, rec |-> Outcome("Done", "Uploading", old, remote, 1, resp.code)]

(***************************************************************************)
(* run(args, config)                                                       *)
(***************************************************************************)
Users == 1..Len(accounts)

\* How often run is invoked: up to MaxBatches times when one account is
\* configured, once when several are (the users' runs are independent).
BatchLimit == IF Len(accounts) = 1 THEN MaxBatches ELSE 1

\* run is invoked: parse_config, users = sections()
RunBegin ==
    /\ pc \in {"idle", "done", "aborted"}
    /\ batches < BatchLimit
    /\ pc' = "loop"
    /\ idx' = 1
    /\ attempted' = {}
    /\ abortedBy' = 0
    /\ batches' = batches + 1
    /\ UNCHANGED <<accounts, cache, last, prev>>

\* One iteration whose field lookups (lines 112-113, before the try) raise
\* KeyError: the exception leaves run.
RunKeyError ==
    /\ pc = "loop"
    /\ idx \in Users
    /\ \/ ~HasField(accounts[idx], USER_CONFIG_ATHLETE_ID_FIELD)
       \/ ~HasField(accounts[idx], USER_CONFIG_API_KEY_FIELD)
    /\ pc' = "aborted"
    /\ abortedBy' = idx
    /\ UNCHANGED <<accounts, cache, last, prev, idx, attempted, batches>>

\* What the except clause of run does with an exception out of sync: log and
\* go on.  TRUE when the loop continues.
ExceptReraises(rec) == FALSE
ExceptContinues(rec) == TRUE

\* One iteration that reaches sync; whatever sync raises is caught.
RunSync ==
    /\ pc = "loop"
    /\ idx \in Users
    /\ HasField(accounts[idx], USER_CONFIG_ATHLETE_ID_FIELD)
    /\ HasField(accounts[idx], USER_CONFIG_API_KEY_FIELD)
    /\ \E dbxOk \in BOOLEAN, dl \in DownloadCases,
          remote \in RemoteContents, resp \in Responses :
          LET r == Sync(accounts[idx], cache[idx], dbxOk, dl, remote, resp)
          IN  /\ cache' = [cache EXCEPT ![idx] = r.file]
              /\ last' = [last EXCEPT ![idx] = r.rec]
              /\ prev' = [prev EXCEPT ![idx] = last[idx]]
              /\ attempted' = attempted \cup {idx}
              /\ IF r.rec.state # "Failed" \/ ExceptContinues(r.rec)
                 THEN /\ idx' = idx + 1
                      /\ UNCHANGED <<pc, abortedBy>>
                 ELSE /\ pc' = "aborted"
                      /\ abortedBy' = idx
                      /\ UNCHANGED idx
    /\ UNCHANGED <<accounts, batches>>

\* The for loop is exhausted: run returns.
RunEnd ==
    /\ pc = "loop"
    /\ idx > Len(accounts)
    /\ pc' = "done"
    /\ UNCHANGED <<accounts, cache, last, prev, idx, attempted, abortedBy, batches>>

AccountLists == UNION { [1..n -> Sections] : n \in 1..MaxUsers }

InitSync ==
    /\ accounts \in AccountLists
    /\ cache = [u \in 1..Len(accounts) |-> NoFile]
    /\ last = [u \in 1..Len(accounts) |-> NoRun]
    /\ prev = [u \in 1..Len(accounts) |-> NoRun]
    /\ pc = "idle"
    /\ idx = 1
    /\ attempted = {}
    /\ abortedBy = 0
    /\ batches = 0

IdleTransform == batch = <<>> /\ table = [status |-> "none"]
IdleMap == mapIn = 0 /\ mapOut = <<>>
IdleDate == dateIn = <<>> /\ dateOut = <<>>

Init == InitSync /\ IdleTransform /\ IdleMap /\ IdleDate

Next ==
    \/ RunBegin /\ UNCHANGED <<transformVars, mapVars, dateVars>>
    \/ RunKeyError /\ UNCHANGED <<transformVars, mapVars, dateVars>>
    \/ RunSync /\ UNCHANGED <<transformVars, mapVars, dateVars>>
    \/ RunEnd /\ UNCHANGED <<transformVars, mapVars, dateVars>>

Spec == Init /\ [][Next]_vars

(***************************************************************************)
(* Floats.  A score is a fixed-point number in hundredths; a float that    *)
(* may be NaN is <<v>> for the value v and <<>> for NaN.                   *)
(***************************************************************************)
NaN == <<>>
Val(v) == <<v>>
IsNaN(f) == f = <<>>
Hundredths(n) == n * 100

(***************************************************************************)
(* Scale mappers (map_series, map_series_reverse).                         *)
(***************************************************************************)
ScaleLow == 0
ScaleHigh == 10
NumEdges == 5
MaxOutside == 5

\* np.linspace(start, stop, num), in hundredths
Linspace(start, stop, num) ==
    [k \in 1..num |->
        Hundredths(start) + ((k - 1) * Hundredths(stop - start)) \div (num - 1)]

\* range(1, 5) and range(4, 0, -1)
ForwardLabels == <<1, 2, 3, 4>>
ReverseLabels == <<4, 3, 2, 1>>

\* pd.cut(x, bins, right, include_lowest, labels) of one float: the label
\* of the bin x falls in, NaN for NaN and for a value outside the bins.
\* bins.searchsorted(x, side='left' if right else 'right'), then
\* ids[x == bins[0]] = 1 under include_lowest.
PdCut(f, bins, right, include_lowest, labels) ==
    IF IsNaN(f) THEN NaN
    ELSE LET x == f[1]
             found == IF right
                      THEN Cardinality({k \in 1..Len(bins) : bins[k] < x})
                      ELSE Cardinality({k \in 1..Len(bins) : bins[k] <= x})
             ids == IF include_lowest /\ x = bins[1] THEN 1 ELSE found
         IN  IF ids = 0 \/ ids = Len(bins) THEN NaN ELSE Val(labels[ids])

map_series_left_closed(f) ==
    PdCut(f, Linspace(ScaleLow, ScaleHigh, NumEdges), FALSE, TRUE, ForwardLabels)
map_series(f) ==
    PdCut(f, Linspace(ScaleLow, ScaleHigh, NumEdges), TRUE, TRUE, ForwardLabels)

map_series_reverse(f) ==
    PdCut(f, Linspace(ScaleLow, ScaleHigh, NumEdges), TRUE, TRUE, ReverseLabels)

\* The scores the mappers are tried on: every hundredth from a little below
\* 0 to a little above 10.
Scores == (Hundredths(ScaleLow) - MaxOutside)..(Hundredths(ScaleHigh) + MaxOutside)

InitMap == mapIn \in Scores /\ mapOut = <<>>

MapForward ==
    /\ mapOut = <<>>
    /\ mapOut' = <<"forward", map_series(Val(mapIn))>>
    /\ UNCHANGED mapIn

MapReverse ==
    /\ mapOut = <<>>
    /\ mapOut' = <<"reverse", map_series_reverse(Val(mapIn))>>
    /\ UNCHANGED mapIn

IdleSync ==
    /\ accounts = <<>>
    /\ cache = <<>>
    /\ last = <<>>
    /\ prev = <<>>
    /\ pc = "idle"
    /\ idx = 1
    /\ attempted = {}
    /\ abortedBy = 0
    /\ batches = 0

NextMap ==
    \/ MapForward /\ UNCHANGED <<syncVars, transformVars, dateVars>>
    \/ MapReverse /\ UNCHANGED <<syncVars, transformVars, dateVars>>

InitMapOnly == IdleSync /\ IdleTransform /\ InitMap /\ IdleDate

SpecMap == InitMapOnly /\ [][NextMap]_vars

(***************************************************************************)
(* Date conversion (map_series_american_to_iso_date).                      *)
(***************************************************************************)
\* x[a:b] of a str
Slice(x, a, b) ==
    LET hi == IF b < Len(x) THEN b ELSE Len(x)
    IN  IF a >= hi THEN <<>> ELSE SubSeq(x, a + 1, hi)

\* f"{x[0:4]}-{x[5:7]}-{x[8:10]}"
american_to_iso_date_unswapped(x) ==
    Slice(x, 0, 4) \o <<"-">> \o Slice(x, 5, 7) \o <<"-">> \o Slice(x, 8, 10)
\* f"{x[0:4]}-{x[8:10]}-{x[5:7]}"
american_to_iso_date(x) ==
    Slice(x, 0, 4) \o <<"-">> \o Slice(x, 8, 10) \o <<"-">> \o Slice(x, 5, 7)

\* Calendar days written as text.
DigitSeq == <<"0", "1", "2", "3", "4", "5", "6", "7", "8", "9">>
DigitChar(n) == DigitSeq[n + 1]
TwoDigits(n) == <<DigitChar(n \div 10), DigitChar(n % 10)>>
FourDigits(n) ==
    <<DigitChar(n \div 1000), DigitChar((n \div 100) % 10),
      DigitChar((n \div 10) % 10), DigitChar(n % 10)>>

Years == {2023, 2024}
Months == 1..12
IsLeap(y) == (y % 4 = 0 /\ y % 100 # 0) \/ y % 400 = 0
DaysIn(y, m) ==
    IF m = 2 THEN (IF IsLeap(y) THEN 29 ELSE 28)
    ELSE IF m \in {4, 6, 9, 11} THEN 30 ELSE 31

\* MM/DD/YYYY
AmericanText(y, m, d) ==
    TwoDigits(m) \o <<"/">> \o TwoDigits(d) \o <<"/">> \o FourDigits(y)
\* YYYY-DD-MM
YearDayMonthText(y, m, d) ==
    FourDigits(y) \o <<"-">> \o TwoDigits(d) \o <<"-">> \o TwoDigits(m)
\* YYYY-MM-DD
IsoText(y, m, d) ==
    FourDigits(y) \o <<"-">> \o TwoDigits(m) \o <<"-">> \o TwoDigits(d)

DateInputs ==
    { [layout |-> l, y |-> y, m |-> m, d |-> d,
       text |-> IF l = "MDY" THEN AmericanText(y, m, d) ELSE YearDayMonthText(y, m, d)] :
         l \in {"MDY", "YDM"}, y \in Years, m \in Months, d \in 1..31 }

InitDate ==
    /\ dateIn \in {i \in DateInputs : i.d <= DaysIn(i.y, i.m)}
    /\ dateOut = <<>>

ConvertDate ==
    /\ dateOut = <<>>
    /\ dateOut' = american_to_iso_date(dateIn.text)
    /\ UNCHANGED dateIn

NextDate == ConvertDate /\ UNCHANGED <<syncVars, transformVars, mapVars>>

InitDateOnly == IdleSync /\ IdleTransform /\ IdleMap /\ InitDate

SpecDate == InitDateOnly /\ [][NextDate]_vars

(***************************************************************************)
(* Schema transform (parse_dataframe_HRV_to_intervals).                    *)
(*                                                                         *)
(* A DataFrame is a sequence of rows; a Series is a sequence of entries    *)
(* [label, value], the label being the row's index label.                  *)
(***************************************************************************)
MaxRows == 3
NumSlots == 3

Slots == 1..NumSlots

\* hrv_to_intervals_map: old name -> (new name, map function)
FixedTargets ==
    {"hrv", "hrvSDNN", "soreness", "fatigue", "stress", "mood", "motivation",
     "sleepQuality"}

SourceOf(target) ==
    CASE target = "hrv" -> "rMSSD"
      [] target = "hrvSDNN" -> "SDNN"
      [] target = "soreness" -> "muscle_soreness"
      [] target = "fatigue" -> "fatigue"
      [] target = "stress" -> "Stress"
      [] target = "mood" -> "Mood"
      [] target = "motivation" -> "trainingMotivation"
      [] OTHER -> "sleep_quality"

MapFuncOf(target, f) ==
    CASE target \in {"hrv", "hrvSDNN"} -> f
      [] target \in {"soreness", "fatigue", "stress"} -> map_series(f)
      [] OTHER -> map_series_reverse(f)

\* The rows of the export.  Tags are the names a user gave the custom tags.
Tags == {"Alcohol", "Caffeine"}
SourceDates == {YearDayMonthText(2024, 1, 15), YearDayMonthText(2024, 1, 16)}

NoTag == [name |-> NaN, value |-> NaN]
\* Slot i of the k-th row holding tag t, with a value (a different one per
\* row and slot) or without
Tagged(t, k, i, present) ==
    [name |-> <<t>>, value |-> IF present THEN Val(Hundredths(k) + i) ELSE NaN]

\* What slot i of the k-th row may hold
SlotChoices(k, i) ==
    {NoTag, Tagged("Alcohol", k, i, TRUE)}
        \cup (IF i < NumSlots THEN {Tagged("Caffeine", k, i, TRUE)} ELSE {})
        \cup (IF i = 1 THEN {Tagged("Alcohol", k, i, FALSE)} ELSE {})

\* A completely empty row of the export
BlankRow ==
    [time |-> NaN, date |-> <<>>, rMSSD |-> NaN, SDNN |-> NaN,
     muscle_soreness |-> NaN, fatigue |-> NaN, Stress |-> NaN, Mood |-> NaN,
     trainingMotivation |-> NaN, sleep_quality |-> NaN,
     tags |-> [i \in Slots |-> NoTag]]

\* A measurement in the k-th row
SessionRow(k, date, tags) ==
    [time |-> <<"08:00">>, date |-> date,
     rMSSD |-> Val(4520 + k), SDNN |-> Val(6000 + k),
     muscle_soreness |-> Val(50 + 250 * k), fatigue |-> Val(800),
     Stress |-> Val(600 + k), Mood |-> Val(900), trainingMotivation |-> Val(250 * k),
     sleep_quality |-> Val(200),
     tags |-> tags]

RowChoices(k) ==
    {BlankRow} \cup
    { SessionRow(k, d, <<t1, t2, t3>>) :
        d \in SourceDates, t1 \in SlotChoices(k, 1),
        t2 \in SlotChoices(k, 2), t3 \in SlotChoices(k, 3) }

\* ---- pandas Series ----
Labels(s) == [k \in 1..Len(s) |-> s[k].label]
IsUnique(labels) ==
    \A j \in 1..Len(labels), k \in 1..Len(labels) : labels[j] = labels[k] => j = k
WithLabel(s, l) == SelectSeq(s, LAMBDA e : e.label = l)
Count(labels, l) == Cardinality({k \in 1..Len(labels) : labels[k] = l})

\* Order of str: by code point, character by character
CharOrder == <<"-", "/">> \o DigitSeq
CharRank(c) == CHOOSE k \in 1..Len(CharOrder) : CharOrder[k] = c
StrLess(a, b) ==
    \/ \E k \in 1..Len(a) :
          /\ k <= Len(b)
          /\ CharRank(a[k]) < CharRank(b[k])
          /\ \A j \in 1..(k - 1) : a[j] = b[j]
    \/ Len(a) < Len(b) /\ \A j \in 1..Len(a) : a[j] = b[j]

RECURSIVE SortedSeq(_)
\* The labels of a set, in ascending order
SortedSeq(S) ==
    IF S = {} THEN <<>>
    ELSE LET least == CHOOSE x \in S : \A y \in S \ {x} : StrLess(x, y)
         IN  <<least>> \o SortedSeq(S \ {least})

RECURSIVE Flatten(_)
Flatten(ss) == IF ss = <<>> THEN <<>> ELSE Head(ss) \o Flatten(Tail(ss))

LabelSet(s) == {s[k].label : k \in 1..Len(s)}

\* Index.union of two indexes one of which repeats a label: every label as
\* often as the index that repeats it most, sorted
UnionLabels(this, other) ==
    LET labs == SortedSeq(LabelSet(this) \cup LabelSet(other))
        Times(l) == IF Count(Labels(this), l) > Count(Labels(other), l)
                    THEN Count(Labels(this), l) ELSE Count(Labels(other), l)
    IN  Flatten([k \in 1..Len(labs) |-> [j \in 1..Times(labs[k]) |-> labs[k]]])

\* The outer join of this and other on the label, this's non-null values
\* first: what this.combine_first(other) holds when no values of this are
\* null.  A label both repeat gives the product of its entries.
OuterJoin(this, other) ==
    LET labs == SortedSeq(LabelSet(this) \cup LabelSet(other))
        Entries(l) ==
            LET a == WithLabel(this, l)
                b == WithLabel(other, l)
            IN  IF Len(a) = 0 THEN b
                ELSE IF Len(b) = 0 THEN a
                ELSE [k \in 1..(Len(a) * Len(b)) |-> a[((k - 1) \div Len(b)) + 1]]
    IN  Flatten([k \in 1..Len(labs) |-> Entries(labs[k])])

\* Reindexing a Series whose index repeats a label onto another index raises
\* ValueError (cannot reindex on an axis with duplicate labels).
ReindexRaises(s, target) == ~IsUnique(Labels(s)) /\ Labels(s) # target

Raised == [err |-> TRUE, s |-> <<>>]
Returned(s) == [err |-> FALSE, s |-> s]

\* this.combine_first(other), other without nulls.  lib: the pandas at hand;
\* "union" reindexes both onto the union of the indexes (pandas 1), "align"
\* joins them (pandas 2).
CombineFirst(this, other, lib) ==
    IF Len(other) = 0 THEN Returned(this)
    ELSE IF Len(this) = 0 THEN Returned(other)
    ELSE IF Labels(this) = Labels(other) THEN Returned(this)
    ELSE IF /\ lib = "union"
            /\ \/ ReindexRaises(this, UnionLabels(this, other))
               \/ ReindexRaises(other, UnionLabels(this, other))
         THEN Raised
         ELSE Returned(OuterJoin(this, other))

\* frame[column] = value: the values of the new column, row by row
SetItem(index, value) ==
    IF Labels(value) = index
    THEN Returned([k \in 1..Len(index) |-> value[k].value])
    ELSE IF ReindexRaises(value, index) THEN Raised
    ELSE Returned([k \in 1..Len(index) |->
                     IF index[k] \in LabelSet(value)
                     THEN WithLabel(value, index[k])[1].value
                     ELSE NaN])

\* ---- the transform ----
\* data[data.time.notna()]: the positions of the rows kept
Retained(data) == SelectSeq([k \in 1..Len(data) |-> k], LAMBDA k : ~IsNaN(data[k].time))

\* data.set_index('date') after the date conversion: the index of the frame
DateIndex(data) ==
    LET kept == Retained(data)
    IN  [k \in 1..Len(kept) |-> american_to_iso_date(data[kept[k]].date)]

\* additional_columns: the names in any custom_tag_i_name of any kept row
AdditionalColumns(data) ==
    LET names == { data[k].tags[i].name :
                     k \in {r \in 1..Len(data) : ~IsNaN(data[r].time)}, i \in Slots }
    IN  { n[1] : n \in names \ {NaN} }

\* data[data[f'custom_tag_{i}_name'] == column][f'custom_tag_{i}_value'].dropna()
SlotSeries(data, column, i) ==
    LET kept == Retained(data)
        index == DateIndex(data)
        all == [k \in 1..Len(kept) |->
                  [label |-> index[k], value |-> data[kept[k]].tags[i].value,
                   name |-> data[kept[k]].tags[i].name]]
        hit == SelectSeq(all, LAMBDA e : e.name = <<column>> /\ ~IsNaN(e.value))
    IN  [k \in 1..Len(hit) |-> [label |-> hit[k].label, value |-> hit[k].value]]

RECURSIVE ColumnData(_, _, _, _)
\* column_data after the slots 1..i have been combined in
ColumnData(data, column, i, lib) ==
    IF i = 0 THEN Returned(<<>>)
    ELSE LET sofar == ColumnData(data, column, i - 1, lib)
         IN  IF sofar.err THEN Raised
             ELSE CombineFirst(sofar.s, SlotSeries(data, column, i), lib)

\* data[column] = column_data
Unpivot(data, column, lib) ==
    LET column_data == ColumnData(data, column, NumSlots, lib)
    IN  IF column_data.err THEN Raised
        ELSE SetItem(DateIndex(data), column_data.s)

\* The columns of the frame the function returns
ReturnedColumns(data) == FixedTargets

\* The index of the frame the function returns: one label per kept row
ReturnedIndex(data) == DateIndex(data)

NoTable == [status |-> "none"]

\* The whole of parse_dataframe_HRV_to_intervals.  kept, unpivoted: the
\* rows of data and the custom tag columns of data when the function returns
Transform(data, lib) ==
    LET kept == Retained(data)
        columns == AdditionalColumns(data)
    IN  IF \E c \in columns : Unpivot(data, c, lib).err
        THEN [status |-> "ValueError"]
        ELSE [status |-> "returned",
              kept |-> kept,
              unpivoted |-> [c \in columns |-> Unpivot(data, c, lib).s],
              index |-> ReturnedIndex(data),
              columns |-> ReturnedColumns(data),
              cells |-> [t \in FixedTargets |->
                           [k \in 1..Len(kept) |->
                               MapFuncOf(t, data[kept[k]][SourceOf(t)])]]]

InitTransform == batch = <<>> /\ table = NoTable

\* pd.read_csv reads one more row of the export
ReadRow ==
    /\ table = NoTable
    /\ Len(batch) < MaxRows
    /\ \E r \in RowChoices(Len(batch) + 1) : batch' = Append(batch, r)
    /\ UNCHANGED table

TransformBatch ==
    /\ table = NoTable
    /\ \E lib \in {"union", "align"} : table' = Transform(batch, lib)
    /\ UNCHANGED batch

InitTransformOnly == IdleSync /\ InitTransform /\ IdleMap /\ IdleDate

NextTransform ==
    \/ ReadRow /\ UNCHANGED <<syncVars, mapVars, dateVars>>
    \/ TransformBatch /\ UNCHANGED <<syncVars, mapVars, dateVars>>

SpecTransform == InitTransformOnly /\ [][NextTransform]_vars

(***************************************************************************)
(* Claims about the sync orchestrator, checked under Spec.                 *)
(***************************************************************************)

\* C1: for one user, when two successive sync calls download the same
\* remote content and the first of them uploaded and ended Done, the second
\* ends Unchanged with no upload attempt, so the two calls upload exactly
\* once; and a call that does not fail and finds the remote content changed
\* (no cached file, or a cached file of another content) uploads.
C1_UploadExactlyOnce ==
    \A u \in Users :
        /\ (prev[u].state = "Done" /\ last[u].content = prev[u].content)
              => /\ last[u].state = "Unchanged"
                 /\ last[u].posts = 0
                 /\ prev[u].posts + last[u].posts = 1
        /\ (last[u].state \notin {"none", "Failed"} /\ last[u].old # last[u].content)
              => /\ last[u].state = "Done"
                 /\ last[u].posts = 1

C1_Witness ==
    \E u \in Users :
        /\ prev[u].state = "Done"
        /\ prev[u].old = NoFile
        /\ prev[u].posts = 1
        /\ last[u].content = prev[u].content
        /\ last[u].state = "Unchanged"

\* C2: when a user's sync call downloaded changed content and then failed
\* in Transforming or Uploading, a later call that downloads the same
\* content and has no failing step reaches Uploading and submits it.
C2_FailedUploadIsRetried ==
    \A u \in Users :
        (/\ WellFormed(accounts[u])
         /\ prev[u].state = "Failed"
         /\ prev[u].stage \in {"Transforming", "Uploading"}
         /\ last[u].content = prev[u].content
         /\ last[u].state \notin {"none", "Failed"})
            => /\ last[u].state = "Done"
               /\ last[u].posts = 1

C4_StatusDecidesOutcome ==
    \A u \in Users :
        (last[u].posts = 1 /\ last[u].code # 0)
            => /\ last[u].code # 200 => last[u].state = "Failed"
               /\ last[u].code = 200 => last[u].state = "Done"

\* C10: a malformed account entry is fatal for that account only: once run
\* is over, sync has been attempted for every well-formed account of the
\* list.
C10_MalformedAccountIsLocal ==
    pc \in {"done", "aborted"} =>
        \A j \in Users : WellFormed(accounts[j]) => j \in attempted

(***************************************************************************)
(* Claims about the scale mapper, checked under SpecMap.                   *)
(***************************************************************************)
InScale(x) == Hundredths(ScaleLow) <= x /\ x <= Hundredths(ScaleHigh)

\* C6 as stated: for every score x in [0, 10], map_series returns 1 when x
\* is in [0, 2.5), 2 when x is in [2.5, 5), 3 when x is in [5, 7.5) and 4
\* when x is in [7.5, 10].
C6_LeftClosedBins ==
    (mapOut # <<>> /\ mapOut[1] = "forward" /\ InScale(mapIn)) =>
        mapOut[2] = Val(IF mapIn < 250 THEN 1
                        ELSE IF mapIn < 500 THEN 2
                        ELSE IF mapIn < 750 THEN 3 ELSE 4)

\* C6 as amended: for every score x in [0, 10], map_series returns 1 when x
\* is in [0, 2.5], 2 when x is in (2.5, 5], 3 when x is in (5, 7.5] and 4
\* when x is in (7.5, 10].
C6_RightClosedBins ==
    (mapOut # <<>> /\ mapOut[1] = "forward" /\ InScale(mapIn)) =>
        mapOut[2] = Val(IF mapIn <= 250 THEN 1
                        ELSE IF mapIn <= 500 THEN 2
                        ELSE IF mapIn <= 750 THEN 3 ELSE 4)

C6_Witness ==
    /\ mapOut # <<>>
    /\ mapOut[1] = "forward"
    /\ mapIn = 750
    /\ mapOut[2] = Val(3)

(***************************************************************************)
(* Claims about the date conversion, checked under SpecDate.               *)
(***************************************************************************)

KeptRows == {k \in 1..Len(batch) : ~IsNaN(batch[k].time)}

\* The tag names in any slot of any kept row of the batch
TagsOfBatch ==
    {t \in Tags : \E k \in KeptRows, i \in Slots : batch[k].tags[i].name = <<t>>}

\* The value of the lowest-numbered slot of the row that holds tag t with a
\* value present; NaN when the row has none
TagValueOfRow(row, t) ==
    LET hits == {i \in Slots : row.tags[i].name = <<t>> /\ ~IsNaN(row.tags[i].value)}
    IN  IF hits = {} THEN NaN
        ELSE row.tags[CHOOSE i \in hits : \A j \in hits : i <= j].value

\* C5: the table the transform returns has exactly the eight fixed target
\* columns plus one column per distinct custom tag name of the batch.
C5_ColumnsAreFixedPlusTags ==
    table.status = "returned" =>
        table.columns = FixedTargets \cup TagsOfBatch

\* C7: the table the transform returns has exactly one row per distinct
\* date of the kept rows, and the row of a date carries the values of the
\* last kept source row of that date.
C7_OneRowPerDateLastWins ==
    table.status = "returned" =>
        LET dateOf(k) == american_to_iso_date(batch[k].date)
            dates == {dateOf(k) : k \in KeptRows}
            lastOf(d) == CHOOSE k \in KeptRows :
                            /\ dateOf(k) = d
                            /\ \A j \in KeptRows : dateOf(j) = d => j <= k
        IN  /\ Len(table.index) = Cardinality(dates)
            /\ {table.index[r] : r \in 1..Len(table.index)} = dates
            /\ \A r \in 1..Len(table.index), t \in FixedTargets :
                  table.cells[t][r] =
                      MapFuncOf(t, batch[lastOf(table.index[r])][SourceOf(t)])

\* C8: for every tag name X and every kept row r, the unpivoted X column
\* holds at r the value of the lowest-numbered slot of r named X whose value
\* is present, and NaN when r has no such slot.
C8_UnpivotFollowsNameNotSlot ==
    table.status = "returned" =>
        \A t \in DOMAIN table.unpivoted, r \in 1..Len(table.kept) :
            table.unpivoted[t][r] = TagValueOfRow(batch[table.kept[r]], t)

====
